---- MODULE Spec2Model ----
(***************************************************************************)
(* Model of multi_category_combination_generator.py: the header classifier *)
(* (_detect_category_mapping), the table parser (read_and_parse_csv), the   *)
(* combination generator (generate_combinations) and the control flow of   *)
(* main with its two export sinks.                                          *)
(*                                                                         *)
(* A Python str is modelled as a sequence of one-character strings, so     *)
(* that strip, split, upper and the lexicographic order are computed and   *)
(* not assumed.  A Python list is a sequence; a dict is a sequence of      *)
(* <<key, value>> pairs in insertion order.                                *)
(***************************************************************************)
EXTENDS Integers, Sequences, FiniteSets, TLC

VARIABLES
    pc,                 \* where main is
    rows,               \* rows = list(reader): the input file's rows
    detected,           \* what _detect_category_mapping returned or raised
    cluster_structure,  \* read_and_parse_csv's result
    combinations,       \* generate_combinations' result
    error,              \* the exception that ended the run, or NoError
    csv_file,           \* rows of <base>_combinations.csv, <<>> while absent
    xlsx_file,          \* rows of <base>_combinations.xlsx, <<>> while absent
    csv_path,           \* main's csv_path: "unset" or "path"
    xlsx_path,          \* main's xlsx_path: "unset", "path" or "None"
    console,            \* the last message printed
    passed              \* run_self_tests' counter

vars == <<pc, rows, detected, cluster_structure, combinations, error,
          csv_file, xlsx_file, csv_path, xlsx_path, console, passed>>

---------------------------------------------------------------------------
(* Bounds of the model.                                                    *)

\* Widest header row drawn for the classifier and the parser.
MaxCols == 4

\* Most data rows (rows 3 onwards) drawn for the parser.
MaxDataRows == 2

---------------------------------------------------------------------------
(* Characters and strings.                                                 *)

\* The characters of the model, in code point order (Python compares str
\* by code point): space, hyphen, digits, A-Z, underscore, a-z.
Alphabet == <<" ", "-", "0", "1", "2", "3", "4", "5", "6", "7", "8", "9",
              "A", "B", "C", "D", "E", "F", "G", "H", "I", "J", "K", "L", "M",
              "N", "O", "P", "Q", "R", "S", "T", "U", "V", "W", "X", "Y", "Z",
              "_",
              "a", "b", "c", "d", "e", "f", "g", "h", "i", "j", "k", "l", "m",
              "n", "o", "p", "q", "r", "s", "t", "u", "v", "w", "x", "y", "z">>

\* The position of a character in that order.
Ord(c) == CHOOSE i \in 1..Len(Alphabet) : Alphabet[i] = c

\* str.isspace for one character.
IsSpace(c) == c = " "

\* str.upper for one character: a-z (positions 40..65) map to A-Z
\* (positions 13..38), every other character to itself.
UpperChar(c) == IF Ord(c) >= 40 THEN Alphabet[Ord(c) - 27] ELSE c

\* str.upper().
Upper(s) == [i \in 1..Len(s) |-> UpperChar(s[i])]

RECURSIVE LStrip(_)
\* str.lstrip(): drop leading whitespace.
LStrip(s) ==
    IF s = <<>> THEN <<>>
    ELSE IF IsSpace(Head(s)) THEN LStrip(Tail(s)) ELSE s

RECURSIVE RStrip(_)
\* str.rstrip(): drop trailing whitespace.
RStrip(s) ==
    IF s = <<>> THEN <<>>
    ELSE IF IsSpace(s[Len(s)]) THEN RStrip(SubSeq(s, 1, Len(s) - 1)) ELSE s

\* str.strip().
Strip(s) == RStrip(LStrip(s))

RECURSIVE SplitFrom(_, _, _)
\* str.split() with no argument: the maximal runs of non-whitespace
\* characters, left to right.  cur is the token being read.
SplitFrom(s, cur, out) ==
    IF s = <<>> THEN (IF cur = <<>> THEN out ELSE Append(out, cur))
    ELSE IF IsSpace(Head(s))
         THEN SplitFrom(Tail(s), <<>>, IF cur = <<>> THEN out ELSE Append(out, cur))
         ELSE SplitFrom(Tail(s), Append(cur, Head(s)), out)

Split(s) == SplitFrom(s, <<>>, <<>>)

RECURSIVE StrLess(_, _)
\* a < b for Python str: lexicographic by code point, a proper prefix first.
StrLess(a, b) ==
    IF b = <<>> THEN FALSE
    ELSE IF a = <<>> THEN TRUE
    ELSE IF Head(a) = Head(b) THEN StrLess(Tail(a), Tail(b))
    ELSE Ord(Head(a)) < Ord(Head(b))

RECURSIVE IntToStr(_)
\* str(n) for n >= 0, as f"{n}" formats it.
IntToStr(n) ==
    IF n < 10 THEN <<Alphabet[3 + n]>>
    ELSE Append(IntToStr(n \div 10), Alphabet[3 + (n % 10)])

\* Python's truth value of a str or None.
None == <<"None">>
Truthy(x) == x # None /\ x # <<>>

\* The category keys.
C1 == <<"C", "1">>
C2 == <<"C", "2">>
C3 == <<"C", "3">>
CategoryTokens == {C1, C2, C3}

---------------------------------------------------------------------------
(* dict, in insertion order.                                               *)

DictKeys(d) == [i \in 1..Len(d) |-> d[i][1]]
DictHas(d, k) == \E i \in 1..Len(d) : d[i][1] = k
DictGet(d, k) == d[CHOOSE i \in 1..Len(d) : d[i][1] = k][2]
\* d[k] = v: a new key is appended, an existing key keeps its place and
\* gets the new value.
DictSet(d, k, v) ==
    IF DictHas(d, k)
    THEN [i \in 1..Len(d) |-> IF d[i][1] = k THEN <<k, v>> ELSE d[i]]
    ELSE Append(d, <<k, v>>)

---------------------------------------------------------------------------
(* Errors.  A raised ValueError is a record holding what its message       *)
(* formats; NoError stands for a normal return.                            *)

NoError == [type |-> "none", what |-> "none"]

\* "Expected exactly 3 categories from row 1, found {len(groups)}.
\*  Headers seen (left-to-right): {groups}"
CategoryCountError(groups) ==
    [type |-> "ValueError", what |-> "categories",
     found |-> Len(groups), groups |-> groups]

\* "CSV must include at least two rows. Row 2 (class names) is required."
MissingRowError == [type |-> "ValueError", what |-> "rows"]

\* "Cluster {key} has no elements. Found clusters: {list(keys)}"
EmptyClusterError(key, keys) ==
    [type |-> "ValueError", what |-> "empty_cluster",
     key |-> key, found |-> keys]

---------------------------------------------------------------------------
(* _detect_category_mapping                                                *)

\* normalized_headers = [(h or "").strip() for h in headers]
NormalizedHeaders(headers) == [i \in 1..Len(headers) |-> Strip(headers[i])]

\* header.split()[0].upper(), for a header that is not empty after strip.
FirstToken(header) == Upper(Head(Split(header)))

\* legacy = any(h and h.split()[0].upper() in {"C1","C2","C3"} for h in ...)
IsLegacy(nh) ==
    \E i \in 1..Len(nh) : nh[i] # <<>> /\ FirstToken(nh[i]) \in CategoryTokens

\* Mutant of LegacyMapping: the token is compared as written, without
\* upper().
LegacyMappingCaseSensitive(nh) ==
    [i \in 1..Len(nh) |->
        IF nh[i] = <<>> THEN None
        ELSE IF Head(Split(nh[i])) \in CategoryTokens THEN Head(Split(nh[i]))
        ELSE None]

\* The legacy loop: a column gets its own first token when that token is
\* C1, C2 or C3, and None otherwise.
LegacyMapping(nh) ==
    [i \in 1..Len(nh) |->
        IF nh[i] = <<>> THEN None
        ELSE IF FirstToken(nh[i]) \in CategoryTokens THEN FirstToken(nh[i])
        ELSE None]

RECURSIVE GroupingScanTruncating(_, _, _, _, _)
\* Mutant of GroupingScan: a fourth group is dropped, its columns left
\* without a category, instead of raising.
GroupingScanTruncating(nh, idx, groups, current_group, cats) ==
    IF idx > Len(nh)
    THEN [raised |-> FALSE, groups |-> groups, cats |-> cats]
    ELSE IF nh[idx] = <<>>
    THEN GroupingScanTruncating(nh, idx + 1, groups, current_group, cats)
    ELSE LET newGroup == current_group = None \/ nh[idx] # current_group
             groups2 == IF newGroup THEN Append(groups, nh[idx]) ELSE groups
             current2 == IF newGroup THEN nh[idx] ELSE current_group
             group_idx == Len(groups2) - 1
         IN  IF group_idx >= 3
             THEN GroupingScanTruncating(nh, idx + 1, groups, current2, cats)
             ELSE GroupingScanTruncating(nh, idx + 1, groups2, current2,
                      [cats EXCEPT ![idx] = <<"C">> \o IntToStr(group_idx + 1)])

RECURSIVE GroupingScanBlankBreaks(_, _, _, _, _)
\* Mutant of GroupingScan: a blank header ends the current group.
GroupingScanBlankBreaks(nh, idx, groups, current_group, cats) ==
    IF idx > Len(nh)
    THEN [raised |-> FALSE, groups |-> groups, cats |-> cats]
    ELSE IF nh[idx] = <<>>
    THEN GroupingScanBlankBreaks(nh, idx + 1, groups, None, cats)
    ELSE LET newGroup == current_group = None \/ nh[idx] # current_group
             groups2 == IF newGroup THEN Append(groups, nh[idx]) ELSE groups
             current2 == IF newGroup THEN nh[idx] ELSE current_group
             group_idx == Len(groups2) - 1
         IN  IF group_idx >= 3
             THEN [raised |-> TRUE, groups |-> groups2, cats |-> cats]
             ELSE GroupingScanBlankBreaks(nh, idx + 1, groups2, current2,
                      [cats EXCEPT ![idx] = <<"C">> \o IntToStr(group_idx + 1)])

RECURSIVE GroupingScan(_, _, _, _, _)
\* The grouping loop from column idx (1-based) on.  groups and
\* current_group are the loop's variables, cats is col_to_category so far.
\* Returns the raise inside the loop (a fourth group) or the state at the
\* loop's end.
GroupingScan(nh, idx, groups, current_group, cats) ==
    IF idx > Len(nh)
    THEN [raised |-> FALSE, groups |-> groups, cats |-> cats]
    ELSE IF nh[idx] = <<>>
    THEN GroupingScan(nh, idx + 1, groups, current_group, cats)
    ELSE LET newGroup == current_group = None \/ nh[idx] # current_group
             groups2 == IF newGroup THEN Append(groups, nh[idx]) ELSE groups
             current2 == IF newGroup THEN nh[idx] ELSE current_group
             group_idx == Len(groups2) - 1
         IN  IF group_idx >= 3
             THEN [raised |-> TRUE, groups |-> groups2, cats |-> cats]
             ELSE GroupingScan(nh, idx + 1, groups2, current2,
                      [cats EXCEPT ![idx] = <<"C">> \o IntToStr(group_idx + 1)])

\* The result of _detect_category_mapping(headers): the returned pair
\* (col_to_category, legacy_mode), or the ValueError it raises.
DetectCategoryMapping(headers) ==
    LET nh == NormalizedHeaders(headers)
        empty == [i \in 1..Len(headers) |-> None]
    IN  IF IsLegacy(nh)
        THEN [raised |-> FALSE, col_to_category |-> LegacyMapping(nh),
              legacy |-> TRUE, err |-> NoError]
        ELSE LET scan == GroupingScan(nh, 1, <<>>, None, empty)
             IN  IF scan.raised \/ Len(scan.groups) # 3
                 THEN [raised |-> TRUE, col_to_category |-> <<>>,
                       legacy |-> FALSE, err |-> CategoryCountError(scan.groups)]
                 ELSE [raised |-> FALSE, col_to_category |-> scan.cats,
                       legacy |-> FALSE, err |-> NoError]

\* The value of `detected` before the classifier has run.
NotDetected ==
    [raised |-> FALSE, col_to_category |-> <<>>, legacy |-> FALSE, err |-> NoError]

---------------------------------------------------------------------------
(* read_and_parse_csv                                                      *)

\* The subgroup name of the column with zero-based index col_idx:
\*   class_name = class_names[col_idx] if col_idx < len(class_names) else None
\*   class_name = class_name.strip() if class_name else f"Class_{col_idx}"
ClassNameOf(class_names, col_idx) ==
    LET class_name == IF col_idx < Len(class_names)
                      THEN class_names[col_idx + 1] ELSE None
    IN  IF Truthy(class_name) THEN Strip(class_name)
        ELSE <<"C", "l", "a", "s", "s", "_">> \o IntToStr(col_idx)

RECURSIVE ColumnElementsKeepsBlanks(_, _)
\* Mutant of ColumnElements: `if elem:` is missing, so a blank cell gives
\* an empty element.
ColumnElementsKeepsBlanks(elements_data, col_idx) ==
    IF elements_data = <<>> THEN <<>>
    ELSE LET row == Head(elements_data)
             rest == ColumnElementsKeepsBlanks(Tail(elements_data), col_idx)
         IN  IF col_idx < Len(row)
             THEN <<Strip(row[col_idx + 1])>> \o rest
             ELSE rest

RECURSIVE ColumnElements(_, _)
\* The elements of the column with zero-based index col_idx: for each data
\* row, in order, the stripped cell when the row reaches the column and the
\* stripped cell is not empty.
ColumnElements(elements_data, col_idx) ==
    IF elements_data = <<>> THEN <<>>
    ELSE LET row == Head(elements_data)
             rest == ColumnElements(Tail(elements_data), col_idx)
         IN  IF col_idx < Len(row) /\ Strip(row[col_idx + 1]) # <<>>
             THEN <<Strip(row[col_idx + 1])>> \o rest
             ELSE rest

\* cluster_structure[cluster_key][class_name] = elements, after
\* cluster_structure[cluster_key] = {} for a new key.
StoreClass(cs, cluster_key, class_name, elements) ==
    LET classes == IF DictHas(cs, cluster_key) THEN DictGet(cs, cluster_key) ELSE <<>>
    IN  DictSet(cs, cluster_key, DictSet(classes, class_name, elements))

RECURSIVE ParseColumns(_, _, _, _, _)
\* The loop over enumerate(col_to_category), from zero-based col_idx on.
ParseColumns(col_to_category, class_names, elements_data, col_idx, cs) ==
    IF col_idx >= Len(col_to_category) THEN cs
    ELSE IF ~Truthy(col_to_category[col_idx + 1])
    THEN ParseColumns(col_to_category, class_names, elements_data, col_idx + 1, cs)
    ELSE ParseColumns(col_to_category, class_names, elements_data, col_idx + 1,
             StoreClass(cs, col_to_category[col_idx + 1],
                        ClassNameOf(class_names, col_idx),
                        ColumnElements(elements_data, col_idx)))

\* The result of read_and_parse_csv on a file whose rows are table: the
\* cluster structure, or the ValueError raised; det is what
\* _detect_category_mapping returned to it.
ReadAndParseCsv(table) ==
    IF Len(table) < 2
    THEN [raised |-> TRUE, cluster_structure |-> <<>>, err |-> MissingRowError,
          det |-> NotDetected]
    ELSE LET det == DetectCategoryMapping(table[1])
         IN  IF det.raised
             THEN [raised |-> TRUE, cluster_structure |-> <<>>, err |-> det.err,
                   det |-> det]
             ELSE [raised |-> FALSE,
                   cluster_structure |->
                       ParseColumns(det.col_to_category, table[2],
                                    SubSeq(table, 3, Len(table)), 0, <<>>),
                   err |-> NoError, det |-> det]

---------------------------------------------------------------------------
(* generate_combinations                                                   *)

RECURSIVE InsertSorted(_, _)
\* item put into the sorted list of (class_name, elements) pairs, after the
\* pairs that are not greater: sorted() is stable and the names of one dict
\* are distinct, so the pairs are ordered by name.
InsertSorted(item, sorted) ==
    IF sorted = <<>> THEN <<item>>
    ELSE IF StrLess(item[1], Head(sorted)[1])
         THEN <<item>> \o sorted
         ELSE <<Head(sorted)>> \o InsertSorted(item, Tail(sorted))

\* Mutant of SortedItems: the pairs in the dict's own order, unsorted.
SortedItemsUnsorted(items) == items

RECURSIVE SortedItems(_)
\* sorted(classes_in_cluster.items())
SortedItems(items) ==
    IF items = <<>> THEN <<>>
    ELSE InsertSorted(items[Len(items)], SortedItems(SubSeq(items, 1, Len(items) - 1)))

RECURSIVE ExtendAll(_)
\* elements.extend(class_elements) for each pair, in order.
ExtendAll(items) ==
    IF items = <<>> THEN <<>> ELSE Head(items)[2] \o ExtendAll(Tail(items))

\* cluster_aggregates[key] after the loop over cluster_structure.keys().
ClusterAggregate(cs, key) ==
    IF DictHas(cs, key) THEN ExtendAll(SortedItems(DictGet(cs, key))) ELSE <<>>

\* f"{c1_elem}-{c2_elem}-{c3_elem}"
CombinationLabel(c1_elem, c2_elem, c3_elem) ==
    c1_elem \o <<"-">> \o c2_elem \o <<"-">> \o c3_elem

RECURSIVE LoopC3(_, _, _)
\* for c3_elem in cluster_aggregates['C3']: combinations.append([...])
LoopC3(c1_elem, c2_elem, l3) ==
    IF l3 = <<>> THEN <<>>
    ELSE <<<<c1_elem, c2_elem, Head(l3), CombinationLabel(c1_elem, c2_elem, Head(l3))>>>>
         \o LoopC3(c1_elem, c2_elem, Tail(l3))

RECURSIVE LoopC2(_, _, _)
\* for c2_elem in cluster_aggregates['C2']: ...
LoopC2(c1_elem, l2, l3) ==
    IF l2 = <<>> THEN <<>>
    ELSE LoopC3(c1_elem, Head(l2), l3) \o LoopC2(c1_elem, Tail(l2), l3)

RECURSIVE LoopC1SkipsRepeats(_, _, _)
\* Mutant of LoopC1: an element that occurs again later in the list is
\* skipped, as if the list were made unique first.
LoopC1SkipsRepeats(l1, l2, l3) ==
    IF l1 = <<>> THEN <<>>
    ELSE IF \E i \in 2..Len(l1) : l1[i] = Head(l1)
         THEN LoopC1SkipsRepeats(Tail(l1), l2, l3)
         ELSE LoopC2(Head(l1), l2, l3) \o LoopC1SkipsRepeats(Tail(l1), l2, l3)

RECURSIVE LoopC1(_, _, _)
\* for c1_elem in cluster_aggregates['C1']: ...
LoopC1(l1, l2, l3) ==
    IF l1 = <<>> THEN <<>>
    ELSE LoopC2(Head(l1), l2, l3) \o LoopC1(Tail(l1), l2, l3)

\* Mutant of GenerateCombinations: the validation loop is missing.
GenerateCombinationsUnvalidated(cs) ==
    [raised |-> FALSE,
     combinations |-> LoopC1(ClusterAggregate(cs, C1), ClusterAggregate(cs, C2),
                             ClusterAggregate(cs, C3)),
     err |-> NoError]

\* The result of generate_combinations(cs): the combination list, or the
\* ValueError raised for the first of C1, C2, C3 whose aggregate is empty.
GenerateCombinations(cs) ==
    LET l1 == ClusterAggregate(cs, C1)
        l2 == ClusterAggregate(cs, C2)
        l3 == ClusterAggregate(cs, C3)
        raise(key) == [raised |-> TRUE, combinations |-> <<>>,
                       err |-> EmptyClusterError(key, DictKeys(cs))]
    IN  IF l1 = <<>> THEN raise(C1)
        ELSE IF l2 = <<>> THEN raise(C2)
        ELSE IF l3 = <<>> THEN raise(C3)
        ELSE [raised |-> FALSE, combinations |-> LoopC1(l1, l2, l3), err |-> NoError]

---------------------------------------------------------------------------
(* run_self_tests                                                          *)

\* "C1,C2,C2,C3" / "Class 1,..." / "A1,B1,B2,C1" / "A2,B3,,C2"
legacy_csv ==
    << <<<<"C", "1">>, <<"C", "2">>, <<"C", "2">>, <<"C", "3">>>>,
       <<<<"C", "l", "a", "s", "s", " ", "1">>, <<"C", "l", "a", "s", "s", " ", "2">>,
         <<"C", "l", "a", "s", "s", " ", "3">>, <<"C", "l", "a", "s", "s", " ", "4">>>>,
       <<<<"A", "1">>, <<"B", "1">>, <<"B", "2">>, <<"C", "1">>>>,
       <<<<"A", "2">>, <<"B", "3">>, <<>>, <<"C", "2">>>> >>

\* "Category 1,Category 2,Category 2,Category 3" with the same rows.
human_csv ==
    << <<<<"C", "a", "t", "e", "g", "o", "r", "y", " ", "1">>,
         <<"C", "a", "t", "e", "g", "o", "r", "y", " ", "2">>,
         <<"C", "a", "t", "e", "g", "o", "r", "y", " ", "2">>,
         <<"C", "a", "t", "e", "g", "o", "r", "y", " ", "3">>>>,
       <<<<"C", "l", "a", "s", "s", " ", "1">>, <<"C", "l", "a", "s", "s", " ", "2">>,
         <<"C", "l", "a", "s", "s", " ", "3">>, <<"C", "l", "a", "s", "s", " ", "4">>>>,
       <<<<"A", "1">>, <<"B", "1">>, <<"B", "2">>, <<"C", "1">>>>,
       <<<<"A", "2">>, <<"B", "3">>, <<>>, <<"C", "2">>>> >>

\* "Product Type,Color,Size" / "Type,Color,Size" / "A,Red,Small" / "B,Blue,Large"
distinct_csv ==
    << <<<<"P", "r", "o", "d", "u", "c", "t", " ", "T", "y", "p", "e">>,
         <<"C", "o", "l", "o", "r">>, <<"S", "i", "z", "e">>>>,
       <<<<"T", "y", "p", "e">>, <<"C", "o", "l", "o", "r">>, <<"S", "i", "z", "e">>>>,
       <<<<"A">>, <<"R", "e", "d">>, <<"S", "m", "a", "l", "l">>>>,
       <<<<"B">>, <<"B", "l", "u", "e">>, <<"L", "a", "r", "g", "e">>>> >>

\* tests: (content, expected_count) in the order they are appended.
SelfTests == << <<legacy_csv, 12>>, <<human_csv, 12>>, <<distinct_csv, 8>> >>

\* One iteration of the test loop ends normally: parsing and generation
\* raise nothing and the count is the expected one.
SelfTestPasses(test) ==
    LET parsed == ReadAndParseCsv(test[1])
    IN  /\ ~parsed.raised
        /\ LET gen == GenerateCombinations(parsed.cluster_structure)
           IN  ~gen.raised /\ Len(gen.combinations) = test[2]

RECURSIVE PassedFrom(_)
\* `passed` when the loop ends, normally or by the first exception.
PassedFrom(tests) ==
    IF tests = <<>> THEN 0
    ELSE IF SelfTestPasses(Head(tests)) THEN 1 + PassedFrom(Tail(tests)) ELSE 0

---------------------------------------------------------------------------
(* The export sinks.                                                       *)

SinkHeaders ==
    << <<"C", "1", "_", "E", "l", "e", "m", "e", "n", "t">>,
       <<"C", "2", "_", "E", "l", "e", "m", "e", "n", "t">>,
       <<"C", "3", "_", "E", "l", "e", "m", "e", "n", "t">>,
       <<"C", "o", "m", "b", "i", "n", "a", "t", "i", "o", "n">> >>

\* The rows save_combinations_csv writes: the header row, then one row per
\* combination.  save_combinations_xlsx writes the same cells.
SinkContent(combos) == <<SinkHeaders>> \o combos

---------------------------------------------------------------------------
(* Inputs.                                                                 *)

\* All sequences of length at most n over the set S.
SeqsUpTo(S, n) == UNION {[1..k -> S] : k \in 0..n}

\* Headers drawn for the classifier: blank, whitespace only, the legacy
\* tokens in several spellings ("C1", "c2 x", " C3"), and headers that are
\* not legacy ("A", "A ", "B", "C1x").
HeaderPool ==
    { <<>>, <<" ">>,
      <<"C", "1">>, <<"c", "2", " ", "x">>, <<" ", "C", "3">>,
      <<"A">>, <<"A", " ">>, <<"B">>, <<"C", "1", "x">> }

\* Row 2 and the data rows given to a header row of n columns when only
\* the headers vary: the labels alternate X, Y; the cell of data row r and
\* column i is the letter of the row followed by the number of the column,
\* in the second row between spaces.
FillLabels(n) == [i \in 1..n |-> IF i % 2 = 1 THEN <<"X">> ELSE <<"Y">>]
FillData(n) ==
    << [i \in 1..n |-> <<"a">> \o IntToStr(i)],
       [i \in 1..n |-> <<" ", "b">> \o IntToStr(i) \o <<" ">>] >>
FillTable(headers) ==
    <<headers, FillLabels(Len(headers))>> \o FillData(Len(headers))

\* The tables of the classifier's specification.
DetectTables == {FillTable(h) : h \in SeqsUpTo(HeaderPool, MaxCols)}

\* Headers, labels and cells drawn for the parser and the generator.
ParseHeaderPool == { <<" ">>, C1, C2, C3, <<"A">>, <<"B">> }
LabelPool == { <<>>, <<" ">>, <<"X">>, <<"Y", " ">> }
CellPool == { <<" ">>, <<"a">> }

\* Header rows used while the labels or the data vary: a legacy row and a
\* grouping row, each with one category of two columns.
FixedHeaderRows == { <<C1, C2, C2, C3>>, <<<<"A">>, <<"A">>, <<"B">>, <<"C">>>> }

\* The files main may be given: a file with fewer than two rows; every
\* header row over ParseHeaderPool with filled labels and data; the fixed
\* header rows with every label row over LabelPool; the header row C1,C2,C3
\* with every list of data rows over CellPool, short rows included.
InputTables ==
       { <<>>, <<<<C1, C2, C3>>>> }
    \cup { FillTable(h) : h \in SeqsUpTo(ParseHeaderPool, MaxCols) }
    \cup { <<h, l>> \o FillData(Len(h)) :
              h \in FixedHeaderRows, l \in SeqsUpTo(LabelPool, MaxCols) }
    \cup { <<<<C1, C2, C3>>, FillLabels(3)>> \o d :
              d \in SeqsUpTo(SeqsUpTo(CellPool, 3), MaxDataRows) }

---------------------------------------------------------------------------
(* main                                                                    *)

Init ==
    /\ pc = "start"
    /\ rows = <<>>
    /\ detected = NotDetected
    /\ cluster_structure = <<>>
    /\ combinations = <<>>
    /\ error = NoError
    /\ csv_file = <<>>
    /\ xlsx_file = <<>>
    /\ csv_path = "unset"
    /\ xlsx_path = "unset"
    /\ console = "none"
    /\ passed = 0

\* if "--self-test" in sys.argv: run_self_tests(); return
\* An AssertionError or ValueError of a test is not caught.
RunSelfTests ==
    /\ pc = "start"
    /\ passed' = PassedFrom(SelfTests)
    /\ pc' = IF passed' = Len(SelfTests) THEN "self_test_done" ELSE "crashed"
    /\ console' = IF passed' = Len(SelfTests) THEN "self_tests_passed" ELSE "traceback"
    /\ UNCHANGED <<rows, detected, cluster_structure, combinations, error,
                   csv_file, xlsx_file, csv_path, xlsx_path>>

\* The banner, when argv holds no --self-test.
Banner ==
    /\ pc = "start"
    /\ pc' = "prompt"
    /\ console' = "banner"
    /\ UNCHANGED <<rows, detected, cluster_structure, combinations, error,
                   csv_file, xlsx_file, csv_path, xlsx_path, passed>>

\* An iteration of the input loop that ends in `continue`: an empty path,
\* a path that does not exist, or a path that does not end in .csv.
PromptRejected ==
    /\ pc = "prompt"
    /\ \E why \in {"no_path", "not_found", "not_csv"} : console' = why
    /\ UNCHANGED <<pc, rows, detected, cluster_structure, combinations, error,
                   csv_file, xlsx_file, csv_path, xlsx_path, passed>>

\* The iteration that ends in `break`.
PromptAccepted ==
    /\ pc = "prompt"
    /\ pc' = "read"
    /\ console' = "reading"
    /\ UNCHANGED <<rows, detected, cluster_structure, combinations, error,
                   csv_file, xlsx_file, csv_path, xlsx_path, passed>>

\* cluster_structure = read_and_parse_csv(input_file), on a file whose
\* rows are table; an exception goes to main's `except Exception`.
ReadStep ==
    /\ pc = "read"
    /\ \E table \in InputTables :
          LET r == ReadAndParseCsv(table)
          IN  /\ rows' = table
              /\ detected' = r.det
              /\ cluster_structure' = r.cluster_structure
              /\ error' = r.err
              /\ pc' = IF r.raised THEN "failed" ELSE "generate"
              /\ console' = IF r.raised THEN "traceback" ELSE "structure"
    /\ UNCHANGED <<combinations, csv_file, xlsx_file, csv_path, xlsx_path, passed>>

\* open(filepath) raises OSError: the file cannot be read.
ReadFails ==
    /\ pc = "read"
    /\ error' = [type |-> "OSError", what |-> "read"]
    /\ pc' = "failed"
    /\ console' = "traceback"
    /\ UNCHANGED <<rows, detected, cluster_structure, combinations,
                   csv_file, xlsx_file, csv_path, xlsx_path, passed>>

\* combinations = generate_combinations(cluster_structure)
GenerateStep ==
    /\ pc = "generate"
    /\ LET g == GenerateCombinations(cluster_structure)
       IN  /\ combinations' = g.combinations
           /\ error' = g.err
           /\ pc' = IF g.raised THEN "failed" ELSE "save_csv"
           /\ console' = IF g.raised THEN "traceback" ELSE "total"
    /\ UNCHANGED <<rows, detected, cluster_structure,
                   csv_file, xlsx_file, csv_path, xlsx_path, passed>>

\* csv_path = save_combinations_csv(combinations, input_file): the file is
\* written, or open/write raises OSError, which the function does not catch.
SaveCsvStep ==
    /\ pc = "save_csv"
    /\ \/ /\ csv_file' = SinkContent(combinations)
          /\ csv_path' = "path"
          /\ pc' = "save_xlsx"
          /\ console' = "csv_saved"
          /\ UNCHANGED error
       \/ /\ error' = [type |-> "OSError", what |-> "csv"]
          /\ pc' = "failed"
          /\ console' = "traceback"
          /\ UNCHANGED <<csv_file, csv_path>>
    /\ UNCHANGED <<rows, detected, cluster_structure, combinations,
                   xlsx_file, xlsx_path, passed>>

\* Mutant of SaveXlsxStep: an Exception other than ImportError is not
\* caught by the sink and reaches main's handler.
SaveXlsxStepPropagates ==
    /\ pc = "save_xlsx"
    /\ \/ /\ xlsx_file' = SinkContent(combinations)
          /\ xlsx_path' = "path"
          /\ console' = "xlsx_saved"
          /\ pc' = "report"
          /\ UNCHANGED error
       \/ /\ xlsx_path' = "None"
          /\ console' = "xlsx_unavailable"
          /\ pc' = "report"
          /\ UNCHANGED <<xlsx_file, error>>
       \/ /\ error' = [type |-> "Exception", what |-> "xlsx"]
          /\ console' = "traceback"
          /\ pc' = "failed"
          /\ UNCHANGED <<xlsx_file, xlsx_path>>
    /\ UNCHANGED <<rows, detected, cluster_structure, combinations,
                   csv_file, csv_path, passed>>

\* xlsx_path = save_combinations_xlsx(combinations, input_file): the
\* workbook is written, or xlsxwriter is missing (ImportError), or any
\* other Exception is raised; both are caught and None is returned.
SaveXlsxStep ==
    /\ pc = "save_xlsx"
    /\ \/ /\ xlsx_file' = SinkContent(combinations)
          /\ xlsx_path' = "path"
          /\ console' = "xlsx_saved"
       \/ /\ xlsx_path' = "None"
          /\ console' = "xlsx_unavailable"
          /\ UNCHANGED xlsx_file
       \/ /\ xlsx_path' = "None"
          /\ console' = "xlsx_failed"
          /\ UNCHANGED xlsx_file
    /\ pc' = "report"
    /\ UNCHANGED <<rows, detected, cluster_structure, combinations, error,
                   csv_file, csv_path, passed>>

\* "Process completed successfully!", the output files and the sample.
ReportStep ==
    /\ pc = "report"
    /\ pc' = "done"
    /\ console' = "completed"
    /\ UNCHANGED <<rows, detected, cluster_structure, combinations, error,
                   csv_file, xlsx_file, csv_path, xlsx_path, passed>>

Next ==
    \/ RunSelfTests
    \/ Banner
    \/ PromptRejected
    \/ PromptAccepted
    \/ ReadStep
    \/ ReadFails
    \/ GenerateStep
    \/ SaveCsvStep
    \/ SaveXlsxStep
    \/ ReportStep

Spec == Init /\ [][Next]_vars

\* main is sequential code: once generation has returned, each sink call
\* and the report that follows it run to their end.
SpecFair ==
    /\ Spec
    /\ WF_vars(SaveCsvStep)
    /\ WF_vars(SaveXlsxStep)
    /\ WF_vars(ReportStep)

---------------------------------------------------------------------------
(* The classifier alone, on every header row over HeaderPool.              *)

InitDetect ==
    /\ pc = "detect"
    /\ rows \in DetectTables
    /\ detected = NotDetected
    /\ cluster_structure = <<>>
    /\ combinations = <<>>
    /\ error = NoError
    /\ csv_file = <<>>
    /\ xlsx_file = <<>>
    /\ csv_path = "unset"
    /\ xlsx_path = "unset"
    /\ console = "none"
    /\ passed = 0

\* col_to_category, _legacy_mode = _detect_category_mapping(clusters)
DetectStep ==
    /\ pc = "detect"
    /\ detected' = DetectCategoryMapping(rows[1])
    /\ error' = detected'.err
    /\ pc' = "detected"
    /\ UNCHANGED <<rows, cluster_structure, combinations,
                   csv_file, xlsx_file, csv_path, xlsx_path, console, passed>>

NextDetect == DetectStep

SpecDetect == InitDetect /\ [][NextDetect]_vars

---------------------------------------------------------------------------
(* What the claims speak of, stated without the code's loops.              *)

SetMin(S) == CHOOSE x \in S : \A y \in S : x <= y
SetMax(S) == CHOOSE x \in S : \A y \in S : y <= x

\* s without its leading and trailing spaces: the part from its first to
\* its last character that is not a space.
Trimmed(s) ==
    LET solid == {i \in 1..Len(s) : s[i] # " "}
    IN  IF solid = {} THEN <<>> ELSE SubSeq(s, SetMin(solid), SetMax(solid))

IsBlank(s) == \A i \in 1..Len(s) : s[i] = " "

\* The first whitespace-delimited token of a string that is not blank.
LeadingToken(s) ==
    LET t == Trimmed(s)
        gaps == {i \in 1..Len(t) : t[i] = " "}
    IN  IF gaps = {} THEN t ELSE SubSeq(t, 1, SetMin(gaps) - 1)

\* k when the first token of s is Ck in either case (k = 1, 2, 3), else 0.
TokenCategory(s) ==
    IF IsBlank(s) THEN 0
    ELSE LET t == LeadingToken(s)
         IN  IF Len(t) = 2 /\ t[1] \in {"C", "c"} /\ t[2] \in {"1", "2", "3"}
             THEN CHOOSE k \in 1..3 : Alphabet[3 + k] = t[2]
             ELSE 0

\* The key of category k.
CategoryKey(k) == <<"C", Alphabet[3 + k]>>

\* Some header that is not blank has C1, C2 or C3 as its first token.
HasLegacyToken(h) == \E i \in 1..Len(h) : TokenCategory(h[i]) # 0

\* The columns whose header is not blank, and those at which a run of
\* identical trimmed header text begins.
NonBlankCols(h) == {i \in 1..Len(h) : ~IsBlank(h[i])}
RunStarts(h) ==
    {i \in NonBlankCols(h) :
        LET before == {j \in NonBlankCols(h) : j < i}
        IN  before = {} \/ Trimmed(h[SetMax(before)]) # Trimmed(h[i])}
\* The number of the run that the non-blank column i lies in.
RunIndex(h, i) == Cardinality({s \in RunStarts(h) : s <= i})
\* The labels of the first n runs, left to right.
RunLabels(h, n) ==
    [k \in 1..n |-> Trimmed(h[CHOOSE s \in RunStarts(h) : RunIndex(h, s) = k])]

---------------------------------------------------------------------------
(* Claims about the classifier, checked under SpecDetect.                  *)

\* C2: in grouping mode the classifier returns an assignment exactly when
\* the non-blank trimmed headers form three runs of identical text, and the
\* assignment gives each non-blank column the category of its run; with a
\* fourth run or fewer than three runs it raises, and the error lists the
\* labels of the runs seen so far: all four when a fourth run begins.
C2_GroupingExactlyThree ==
    (pc = "detected" /\ ~HasLegacyToken(rows[1])) =>
        LET h == rows[1]
            runs == Cardinality(RunStarts(h))
        IN  /\ ~detected.legacy
            /\ ~detected.raised <=> runs = 3
            /\ ~detected.raised =>
                  detected.col_to_category =
                      [i \in 1..Len(h) |->
                          IF IsBlank(h[i]) THEN None
                          ELSE CategoryKey(RunIndex(h, i))]
            /\ detected.raised =>
                  /\ detected.err.what = "categories"
                  /\ detected.err.groups =
                         RunLabels(h, IF runs > 4 THEN 4 ELSE runs)
                  /\ detected.err.found = Len(detected.err.groups)
                  /\ runs >= 4 => Len(detected.err.groups) = 4

\* C2 witness: a header row of four runs was refused, the error naming
\* four groups.
C2_Witness ==
    /\ pc = "detected"
    /\ ~HasLegacyToken(rows[1])
    /\ Cardinality(RunStarts(rows[1])) = 4
    /\ detected.raised
    /\ Len(detected.err.groups) = 4

\* C3: legacy mode is selected exactly when some non-blank header has C1,
\* C2 or C3 (in either case) as its first token; then the assignment is as
\* long as the header row, a column has category k exactly when its own
\* first token is Ck, and every other column has none.
C3_LegacyPerColumn ==
    pc = "detected" =>
        LET h == rows[1]
        IN  /\ detected.legacy <=> HasLegacyToken(h)
            /\ HasLegacyToken(h) =>
                  /\ ~detected.raised
                  /\ Len(detected.col_to_category) = Len(h)
                  /\ \A i \in 1..Len(h) :
                        /\ \A k \in 1..3 :
                              detected.col_to_category[i] = CategoryKey(k)
                                  <=> TokenCategory(h[i]) = k
                        /\ TokenCategory(h[i]) = 0
                              => detected.col_to_category[i] = None

\* C3 witness: a legacy row holding a lower-case token, a non-blank header
\* that is no token, and a blank header.
C3_Witness ==
    /\ pc = "detected"
    /\ detected.legacy
    /\ \E i, j, k \in 1..Len(rows[1]) :
          /\ TokenCategory(rows[1][i]) # 0 /\ Trimmed(rows[1][i])[1] = "c"
          /\ ~IsBlank(rows[1][j]) /\ TokenCategory(rows[1][j]) = 0
          /\ IsBlank(rows[1][k])

\* The header row h with every header of its k-th run replaced by Ck.
AsLegacyRow(h) ==
    [i \in 1..Len(h) |-> IF IsBlank(h[i]) THEN h[i] ELSE CategoryKey(RunIndex(h, i))]

\* C7: a header row accepted in grouping mode, with the headers of its
\* k-th run replaced by Ck, is mapped by legacy mode to the same
\* assignment; with the same row 2 and data rows both tables give the same
\* cluster structure and the same combinations.
C7_GroupingAgreesWithLegacy ==
    (pc = "detected" /\ ~detected.raised /\ ~detected.legacy) =>
        LET legacyRow == AsLegacyRow(rows[1])
            legacyTable == <<legacyRow>> \o Tail(rows)
            viaLegacy == DetectCategoryMapping(legacyRow)
            here == ReadAndParseCsv(rows)
            there == ReadAndParseCsv(legacyTable)
        IN  /\ viaLegacy.legacy /\ ~viaLegacy.raised
            /\ viaLegacy.col_to_category = detected.col_to_category
            /\ ~here.raised /\ ~there.raised
            /\ there.cluster_structure = here.cluster_structure
            /\ GenerateCombinations(there.cluster_structure)
                   = GenerateCombinations(here.cluster_structure)

\* C7 witness: an accepted grouping row in which two adjacent columns fell
\* into one category.
C7_Witness ==
    /\ pc = "detected"
    /\ ~detected.raised
    /\ ~detected.legacy
    /\ \E i \in 1..(Len(rows[1]) - 1) :
          /\ detected.col_to_category[i] # None
          /\ detected.col_to_category[i] = detected.col_to_category[i + 1]

---------------------------------------------------------------------------
(* What the claims about the parser and the generator speak of.            *)

\* a comes before b in lexicographic order: at the first position where
\* they differ a has the smaller character, or a is a proper prefix of b.
LexLess(a, b) ==
    \E k \in 1..(Len(b)) :
        /\ k <= Len(a) + 1
        /\ \A m \in 1..(k - 1) : a[m] = b[m]
        /\ k = Len(a) + 1 \/ Ord(a[k]) < Ord(b[k])

\* The subgroups of a category: its (name, elements) pairs, none when the
\* category is absent.
Subgroups(cs, key) == IF DictHas(cs, key) THEN DictGet(cs, key) ELSE <<>>

\* The number of subgroups whose name comes before that of subgroup i.
Rank(classes, i) ==
    Cardinality({j \in 1..Len(classes) : LexLess(classes[j][1], classes[i][1])})

RECURSIVE ConcatFromRank(_, _)
\* The element lists of the subgroups of rank r and more, one after the
\* other by rank (the names of one category are distinct, so the ranks are
\* 0, 1, ..., one subgroup each).
ConcatFromRank(classes, r) ==
    IF r >= Len(classes) THEN <<>>
    ELSE classes[CHOOSE i \in 1..Len(classes) : Rank(classes, i) = r][2]
             \o ConcatFromRank(classes, r + 1)

\* The flattened list of a category: the element lists of its subgroups
\* one after the other in lexicographic order of subgroup name.
Flattened(cs, key) == ConcatFromRank(Subgroups(cs, key), 0)

\* How often x occurs in the list l.
Occurrences(l, x) == Cardinality({i \in 1..Len(l) : l[i] = x})

\* The elements of a list.
Range(l) == {l[i] : i \in 1..Len(l)}

\* The first three fields of a combination.
Triple(combo) == <<combo[1], combo[2], combo[3]>>

\* The trimmed non-blank cells of the column numbered col (from 1) in the
\* data rows that reach it, in row order.
ColumnCells(table, col) ==
    LET R == {r \in 3..Len(table) : col <= Len(table[r]) /\ ~IsBlank(table[r][col])}
    IN  [n \in 1..Cardinality(R) |->
            Trimmed(table[CHOOSE r \in R : Cardinality({q \in R : q <= r}) = n][col])]

\* read_and_parse_csv has returned; generate_combinations has returned;
\* generate_combinations has raised.
ParseReturned ==
    \/ pc \in {"generate", "save_csv", "save_xlsx", "report", "done"}
    \/ pc = "failed" /\ error.what \in {"empty_cluster", "csv"}
GenerateReturned ==
    \/ pc \in {"save_csv", "save_xlsx", "report", "done"}
    \/ pc = "failed" /\ error.what = "csv"
GenerateRaised == pc = "failed" /\ error.what = "empty_cluster"

---------------------------------------------------------------------------
(* Claims about the parser, the generator and main, checked under Spec.    *)

\* C1 as stated: once generation has succeeded there are n1*n2*n3
\* combinations, every triple of list1 x list2 x list3 is among them, and
\* no triple appears twice.
C1_NoTripleTwice ==
    GenerateReturned =>
        LET l1 == Flattened(cluster_structure, C1)
            l2 == Flattened(cluster_structure, C2)
            l3 == Flattened(cluster_structure, C3)
        IN  /\ Len(combinations) = Len(l1) * Len(l2) * Len(l3)
            /\ \A x \in Range(l1), y \in Range(l2), z \in Range(l3) :
                  \E p \in 1..Len(combinations) : Triple(combinations[p]) = <<x, y, z>>
            /\ \A p, q \in 1..Len(combinations) :
                  p # q => Triple(combinations[p]) # Triple(combinations[q])

\* C1 as amended: once generation has succeeded there are n1*n2*n3
\* combinations, each a triple of list1 x list2 x list3, and the triple
\* (x, y, z) appears as many times as the product of the numbers of
\* occurrences of x in list1, y in list2 and z in list3: at least once, and
\* exactly once when no list holds an element twice.
C1_CountAndMultiplicity ==
    GenerateReturned =>
        LET l1 == Flattened(cluster_structure, C1)
            l2 == Flattened(cluster_structure, C2)
            l3 == Flattened(cluster_structure, C3)
        IN  /\ Len(combinations) = Len(l1) * Len(l2) * Len(l3)
            /\ \A p \in 1..Len(combinations) :
                  /\ combinations[p][1] \in Range(l1)
                  /\ combinations[p][2] \in Range(l2)
                  /\ combinations[p][3] \in Range(l3)
            /\ \A x \in Range(l1), y \in Range(l2), z \in Range(l3) :
                  Cardinality({p \in 1..Len(combinations) :
                                  Triple(combinations[p]) = <<x, y, z>>})
                      = Occurrences(l1, x) * Occurrences(l2, y) * Occurrences(l3, z)

\* C1 witness: generation succeeded on lists one of which holds an element
\* twice.
C1_Witness ==
    /\ pc = "save_csv"
    /\ \E key \in CategoryTokens :
          \E x \in Range(Flattened(cluster_structure, key)) :
              Occurrences(Flattened(cluster_structure, key), x) > 1

\* C4: after parsing, a column whose header is blank has no category; every
\* subgroup of the structure lies in category C1, C2 or C3 and holds
\* exactly the trimmed non-blank cells of a column with a non-blank header
\* assigned to that category; no element is empty.
C4_BlanksContributeNothing ==
    ParseReturned =>
        /\ \A i \in 1..Len(rows[1]) :
              IsBlank(rows[1][i]) => detected.col_to_category[i] = None
        /\ \A n \in 1..Len(cluster_structure) :
              /\ cluster_structure[n][1] \in CategoryTokens
              /\ \A m \in 1..Len(cluster_structure[n][2]) :
                    /\ \E i \in 1..Len(rows[1]) :
                          /\ ~IsBlank(rows[1][i])
                          /\ detected.col_to_category[i] = cluster_structure[n][1]
                          /\ cluster_structure[n][2][m][2] = ColumnCells(rows, i)
                    /\ \A e \in Range(cluster_structure[n][2][m][2]) : ~IsBlank(e)

\* C4 witness: a table was parsed in which a column with a blank header
\* holds a label and data, next to columns that gave subgroups.
C4_Witness ==
    /\ pc = "generate"
    /\ cluster_structure # <<>>
    /\ \E i \in 1..Len(rows[1]) :
          /\ IsBlank(rows[1][i])
          /\ i <= Len(rows[2]) /\ ~IsBlank(rows[2][i])
          /\ ColumnCells(rows, i) # <<>>

\* C5: generate_combinations returns only when each of C1, C2, C3 has a
\* non-empty flattened list, and then the list it returns is not empty;
\* when it raises, the category the error names has an empty flattened
\* list, the error lists the keys of the structure, and no combination
\* is returned.
C5_EmptyCategoryRaises ==
    LET empty(key) == Flattened(cluster_structure, key) = <<>>
    IN  /\ GenerateReturned =>
              /\ \A key \in CategoryTokens : ~empty(key)
              /\ combinations # <<>>
        /\ GenerateRaised =>
              /\ error.key \in CategoryTokens
              /\ empty(error.key)
              /\ error.found = DictKeys(cluster_structure)
              /\ combinations = <<>>
        /\ (ParseReturned /\ pc # "generate" /\ \E key \in CategoryTokens : empty(key))
              => GenerateRaised

\* C5 witness: generation raised for a category that is among the keys
\* found, all of its data cells being blank.
C5_Witness ==
    /\ GenerateRaised
    /\ DictHas(cluster_structure, error.key)
    /\ \A m \in 1..Len(DictGet(cluster_structure, error.key)) :
          DictGet(cluster_structure, error.key)[m][2] = <<>>

\* C8 as stated: after parsing, for every column assigned to a category, the
\* subgroup of that category named by the column's label exists and holds
\* the column's trimmed non-blank cells, consecutively and in row order.
C8_EveryCellInItsSubgroup ==
    ParseReturned =>
        \A i \in 1..Len(rows[1]) :
            detected.col_to_category[i] # None =>
                LET classes == Subgroups(cluster_structure, detected.col_to_category[i])
                    name == ClassNameOf(rows[2], i - 1)
                    cells == ColumnCells(rows, i)
                IN  /\ DictHas(classes, name)
                    /\ \E off \in 0..(Len(DictGet(classes, name)) - Len(cells)) :
                          SubSeq(DictGet(classes, name), off + 1, off + Len(cells)) = cells

\* The name the claim gives the subgroup of column i (from 1): the trimmed
\* label, or Class_<i-1> when the label is missing or blank.
LabelName(table, i) ==
    IF i <= Len(table[2]) /\ ~IsBlank(table[2][i]) THEN Trimmed(table[2][i])
    ELSE <<"C", "l", "a", "s", "s", "_">> \o IntToStr(i - 1)

\* C9 as stated: after parsing, the subgroup of every assigned column is
\* named by the trimmed label, or by Class_<index> when the label is
\* missing, empty or whitespace only; no subgroup has an empty name.
C9_BlankLabelGetsPlaceholder ==
    ParseReturned =>
        /\ \A i \in 1..Len(rows[1]) :
              detected.col_to_category[i] # None =>
                  /\ ClassNameOf(rows[2], i - 1) = LabelName(rows, i)
                  /\ DictHas(Subgroups(cluster_structure, detected.col_to_category[i]),
                             LabelName(rows, i))
        /\ \A n \in 1..Len(cluster_structure) :
              \A m \in 1..Len(cluster_structure[n][2]) :
                  cluster_structure[n][2][m][1] # <<>>

\* C10: the combination at zero-based position i*n2*n3 + j*n3 + k is
\* (list1[i], list2[j], list3[k], label), the label being the three
\* elements joined by "-", where listk is the category's subgroups
\* flattened in lexicographic order of subgroup name.
C10_NestedOrder ==
    GenerateReturned =>
        LET l1 == Flattened(cluster_structure, C1)
            l2 == Flattened(cluster_structure, C2)
            l3 == Flattened(cluster_structure, C3)
            n2 == Len(l2)
            n3 == Len(l3)
        IN  /\ Len(combinations) = Len(l1) * n2 * n3
            /\ \A i \in 0..(Len(l1) - 1), j \in 0..(n2 - 1), k \in 0..(n3 - 1) :
                  combinations[i * n2 * n3 + j * n3 + k + 1] =
                      <<l1[i + 1], l2[j + 1], l3[k + 1],
                        l1[i + 1] \o <<"-">> \o l2[j + 1] \o <<"-">> \o l3[k + 1]>>

\* C10 witness: generation succeeded on a category whose second column
\* carries the smaller subgroup name, both subgroups holding elements.
C10_Witness ==
    /\ pc = "save_csv"
    /\ \E key \in CategoryTokens :
          LET classes == Subgroups(cluster_structure, key)
          IN  /\ Len(classes) = 2
              /\ LexLess(classes[2][1], classes[1][1])
              /\ classes[1][2] # <<>> /\ classes[2][2] # <<>>
              /\ classes[1][2] # classes[2][2]

\* C6: once generation has succeeded the CSV sink is attempted, and before
\* the spreadsheet sink; whatever the spreadsheet sink meets, the run goes
\* on to the report and ends completed, without error and with the CSV
\* written; a failed CSV sink ends the run, which never completes.
C6_SinkOrderAndRecovery ==
    /\ [](/\ pc \in {"save_xlsx", "report", "done"} =>
                /\ csv_path = "path"
                /\ csv_file = SinkContent(combinations)
                /\ error = NoError
          /\ xlsx_path # "unset" => csv_path = "path"
          /\ xlsx_file # <<>> => csv_file # <<>>
          /\ pc \in {"start", "prompt", "read", "generate", "save_csv"} =>
                csv_path = "unset" /\ xlsx_path = "unset")
    /\ [][/\ pc = "save_csv" =>
                \/ pc' = "save_xlsx" /\ csv_path' = "path"
                \/ pc' = "failed" /\ csv_path' = "unset" /\ xlsx_path' = "unset"
          /\ pc = "save_xlsx" =>
                pc' = "report" /\ error' = NoError /\ xlsx_path' \in {"path", "None"}
          /\ pc = "report" => pc' = "done"
          /\ pc = "failed" => pc' = "failed"]_vars
    /\ (pc = "save_csv") ~> (pc = "save_xlsx" \/ pc = "failed")
    /\ (pc = "save_xlsx") ~> (pc = "done")

\* C6 witness: a run completed with the CSV written although the
\* spreadsheet sink returned no file.
C6_Witness ==
    /\ pc = "done"
    /\ xlsx_path = "None"
    /\ xlsx_file = <<>>
    /\ csv_file = SinkContent(combinations)
    /\ combinations # <<>>

====
